---- MODULE Spec2Model ----
(***************************************************************************)
(* Model of the two providers of metatube-sdk-go under src/:               *)
(*   provider/heyzo/heyzo.go  (Heyzo.NormalizeID, ParseIDFromURL,          *)
(*                             GetMovieInfoByURL and its OnXML handlers)   *)
(*   unnamed/part_000         (package xslist: GetActorInfoByURL,          *)
(*                             SearchActor)                                *)
(* A collector runs the registered OnXML callbacks in registration order,  *)
(* each once per matching node in document order.  The document is the     *)
(* environment: every handler step draws the content of the node it is     *)
(* invoked on from a small set.                                            *)
(***************************************************************************)
EXTENDS Integers, Sequences, FiniteSets, TLC

\* ------------------------------------------------------------------ bounds
\* Total number of nodes, over all selectors, that one document matches.
MaxNodes == 3
\* Length of the free part of an identifier handed to NormalizeID.
MaxIdLen == 3

\* ------------------------------------------------------------- Go strings
Upper == "ABCDEFGHIJKLMNOPQRSTUVWXYZ"
Lower == "abcdefghijklmnopqrstuvwxyz"
Digits == "0123456789"

CharsOf(s) == {SubSeq(s, i, i) : i \in 1..Len(s)}

UpperSet == CharsOf(Upper)
LetterSet == CharsOf(Upper) \cup CharsOf(Lower)
DigitSet == CharsOf(Digits)
SpaceSet == {" ", "\t", "\n", "\r"}

At(s, i) == SubSeq(s, i, i)

From(s, i) == SubSeq(s, i, Len(s))

InStr(c, set) == \E i \in 1..Len(set) : At(set, i) = c

IsDigit(c) == c \in DigitSet

IsLetter(c) == c \in LetterSet

IsSpace(c) == c \in SpaceSet

ToLower(c) ==
  IF c \in UpperSet
  THEN At(Lower, CHOOSE i \in 1..Len(Upper) : At(Upper, i) = c)
  ELSE c

DigitVal(c) == (CHOOSE i \in 1..Len(Digits) : At(Digits, i) = c) - 1

AllDigits(s) == \A i \in 1..Len(s) : IsDigit(At(s, i))

\* strconv.Atoi on a string of ASCII digits
RECURSIVE Atoi(_)
Atoi(s) ==
  IF s = "" THEN 0
  ELSE 10 * Atoi(SubSeq(s, 1, Len(s) - 1)) + DigitVal(At(s, Len(s)))

HasPrefix(s, p) == Len(s) >= Len(p) /\ SubSeq(s, 1, Len(p)) = p

HasSuffix(s, p) == Len(s) >= Len(p) /\ From(s, Len(s) - Len(p) + 1) = p

\* strings.Index, 1-based, 0 when absent; the search starts at position from
RECURSIVE IndexFrom(_, _, _)
IndexFrom(s, sub, from) ==
  IF from + Len(sub) - 1 > Len(s) THEN 0
  ELSE IF SubSeq(s, from, from + Len(sub) - 1) = sub THEN from
  ELSE IndexFrom(s, sub, from + 1)

Index(s, sub) == IndexFrom(s, sub, 1)

\* strings.LastIndex, searched downwards from position from
RECURSIVE LastIndexFrom(_, _, _)
LastIndexFrom(s, sub, from) ==
  IF from < 1 THEN 0
  ELSE IF SubSeq(s, from, from + Len(sub) - 1) = sub THEN from
  ELSE LastIndexFrom(s, sub, from - 1)

LastIndex(s, sub) == LastIndexFrom(s, sub, Len(s) - Len(sub) + 1)

Contains(s, sub) == Index(s, sub) # 0

\* strings.TrimLeft / TrimRight / Trim with a cutset
RECURSIVE TrimLeft(_, _)
TrimLeft(s, cutset) ==
  IF s # "" /\ InStr(At(s, 1), cutset) THEN TrimLeft(From(s, 2), cutset) ELSE s

RECURSIVE TrimRight(_, _)
TrimRight(s, cutset) ==
  IF s # "" /\ InStr(At(s, Len(s)), cutset)
  THEN TrimRight(SubSeq(s, 1, Len(s) - 1), cutset)
  ELSE s

Trim(s, cutset) == TrimLeft(TrimRight(s, cutset), cutset)

TrimSpace(s) == Trim(s, " \t\n\r")

TrimSuffix(s, suffix) ==
  IF HasSuffix(s, suffix) THEN SubSeq(s, 1, Len(s) - Len(suffix)) ELSE s

\* strings.ReplaceAll(s, old, new) for a non-empty old
RECURSIVE ReplaceAll(_, _, _)
ReplaceAll(s, old, new) ==
  LET i == Index(s, old)
  IN IF i = 0 THEN s
     ELSE SubSeq(s, 1, i - 1) \o new \o ReplaceAll(From(s, i + Len(old)), old, new)

\* strings.SplitN(s, sep, 2)
SplitN2(s, sep) ==
  LET i == Index(s, sep)
  IN IF i = 0 THEN <<s>> ELSE <<SubSeq(s, 1, i - 1), From(s, i + Len(sep))>>

\* strings.Fields: the maximal runs of non-space characters
RECURSIVE FieldEnd(_, _)
FieldEnd(t, i) ==
  IF i > Len(t) \/ IsSpace(At(t, i)) THEN i ELSE FieldEnd(t, i + 1)

RECURSIVE FieldsOf(_)
FieldsOf(t) ==
  IF t = "" THEN <<>>
  ELSE <<SubSeq(t, 1, FieldEnd(t, 1) - 1)>>
       \o FieldsOf(TrimLeft(From(t, FieldEnd(t, 1)), " \t\n\r"))

Fields(s) == FieldsOf(TrimLeft(s, " \t\n\r"))

\* path.Base
PathBase(p) ==
  LET q == TrimRight(p, "/")
      i == LastIndex(q, "/")
  IN IF p = "" THEN "."
     ELSE IF q = "" THEN "/"
     ELSE From(q, i + 1)

\* path.Ext: the suffix from the last dot of the last element
PathExt(p) ==
  LET d == LastIndex(p, ".")
  IN IF d = 0 \/ LastIndex(p, "/") > d THEN "" ELSE From(p, d)

\* path.Dir: everything up to the last slash, cleaned of trailing slashes
PathDir(p) ==
  LET i == LastIndex(p, "/")
      dir == SubSeq(p, 1, i)
      q == TrimRight(dir, "/")
  IN IF dir = "" THEN "."
     ELSE IF q = "" THEN "/"
     ELSE q

\* ------------------------------------------------------------------ state
VARIABLES
  op,       \* the exported method being executed, "idle" before the call
  pc,       \* the registered handler the collector is at; "done"; "panic"
  nodes,    \* matching nodes the collector has handed to handlers so far
  info,     \* *model.MovieInfo of GetMovieInfoByURL (Nil before it is built)
  actor,    \* *model.ActorInfo of GetActorInfoByURL (Nil before it is built)
  results,  \* []*model.ActorSearchResult of SearchActor
  err,      \* the err result of the call
  visits,   \* d.Visit calls issued by the Preview Video handler
  dErr,     \* what the last d.Visit returned ("none" before the first)
  resp,     \* the last *colly.Response handed to d's OnResponse handler
  prior,    \* per contested field, what the higher-priority extractor wrote
  later,    \* contested fields a lower-priority extractor matched afterwards
  arg,      \* the argument of the last NormalizeID call
  ret       \* the value the last NormalizeID call returned

vars == <<op, pc, nodes, info, actor, results, err, visits, dErr, resp,
          prior, later, arg, ret>>

\* a nil pointer
Nil == <<>>

\* a nil error
NoError == "nil"

NoPrior == [f \in {} |-> 0]

Init ==
  /\ op = "idle"
  /\ pc = "idle"
  /\ nodes = 0
  /\ info = Nil
  /\ actor = Nil
  /\ results = <<>>
  /\ err = NoError
  /\ visits = 0
  /\ dErr = "none"
  /\ resp = Nil
  /\ prior = NoPrior
  /\ later = {}
  /\ arg = ""
  /\ ret = ""

\* ------------------------------------------------------ Heyzo.NormalizeID
\* The optional group made mandatory: ^(?i)heyzo-(\d+)$
NormalizeIDPrefixRequired(id) ==
  LET rest == From(id, 7)
  IN IF Len(id) >= 6
        /\ (\A i \in 1..6 : ToLower(At(id, i)) = At("heyzo-", i))
        /\ rest # "" /\ AllDigits(rest)
     THEN rest ELSE ""

\* regexp ^(?i)(?:heyzo-)?(\d+)$ ; FindStringSubmatch ; ss[1] or ""
NormalizeID(id) ==
  LET folded == Len(id) >= 6
                /\ \A i \in 1..6 : ToLower(At(id, i)) = At("heyzo-", i)
      rest == IF folded THEN From(id, 7) ELSE id
  IN IF rest # "" /\ AllDigits(rest) THEN rest ELSE ""

\* Identifiers: a prefix variant followed by up to MaxIdLen free characters.
IdPrefixes == {"", "heyzo-", "HEYZO-", "HeyZo-", "heyzo", "eyzo-", "xheyzo-"}

IdAlphabet == {"0", "7", "a", "-", " "}

RECURSIVE StringsUpTo(_, _)
StringsUpTo(alphabet, n) ==
  IF n = 0 THEN {""}
  ELSE LET shorter == StringsUpTo(alphabet, n - 1)
       IN shorter \cup {s \o c : s \in shorter, c \in alphabet}

RawIDs == {p \o b : p \in IdPrefixes, b \in StringsUpTo(IdAlphabet, MaxIdLen)}

CallNormalizeID(id) ==
  /\ op = "idle"
  /\ op' = "normalize"
  /\ pc' = "done"
  /\ arg' = id
  /\ ret' = NormalizeID(id)
  /\ UNCHANGED <<nodes, info, actor, results, err, visits, dErr, resp, prior, later>>

\* the caller hands the normalized identifier to NormalizeID once more
CallNormalizeIDAgain ==
  /\ op = "normalize"
  /\ op' = "renormalize"
  /\ arg' = ret
  /\ ret' = NormalizeID(ret)
  /\ UNCHANGED <<pc, nodes, info, actor, results, err, visits, dErr, resp, prior, later>>

\* ---------------------------------------------------------------- net/url
HexSet == CharsOf("0123456789abcdefABCDEF")

IsHex(c) == c \in HexSet

\* a percent sign that does not start a %XX escape
RECURSIVE BadEscapeFrom(_, _)
BadEscapeFrom(s, i) ==
  IF i = 0 THEN FALSE
  ELSE IF ~(i + 2 <= Len(s) /\ IsHex(At(s, i + 1)) /\ IsHex(At(s, i + 2))) THEN TRUE
  ELSE BadEscapeFrom(s, IndexFrom(s, "%", i + 1))

BadEscape(s) == BadEscapeFrom(s, Index(s, "%"))

HasCTL(s) == Contains(s, "\t") \/ Contains(s, "\n") \/ Contains(s, "\r")

\* url.getScheme: letters, then letters, digits, "+-." up to a colon
SchemeTailSet == CharsOf("0123456789+-.")

RECURSIVE SchemeStopFrom(_, _)
SchemeStopFrom(raw, i) ==
  IF i > Len(raw) THEN 0
  ELSE IF IsLetter(At(raw, i)) \/ (i > 1 /\ At(raw, i) \in SchemeTailSet)
  THEN SchemeStopFrom(raw, i + 1)
  ELSE i

SchemeStop(raw) == SchemeStopFrom(raw, 1)

SchemeAt(raw, k) ==
  IF k = 0 \/ At(raw, k) # ":"
  THEN [ok |-> TRUE, scheme |-> "", rest |-> raw]
  ELSE IF k = 1
  THEN [ok |-> FALSE, scheme |-> "", rest |-> raw]
  ELSE [ok |-> TRUE, scheme |-> SubSeq(raw, 1, k - 1), rest |-> From(raw, k + 1)]

GetScheme(raw) == SchemeAt(raw, SchemeStop(raw))

\* the part of s before the first sep (all of s when there is none) ...
Before(s, i) == IF i = 0 THEN s ELSE SubSeq(s, 1, i - 1)

\* ... and the part after it ("" when there is none)
After(s, i, n) == IF i = 0 THEN "" ELSE From(s, i + n)

\* url.parse, last step: the authority and the path of rest
ParsePath(ok, scheme, rest, query, frag, hasAuth, s) ==
  [ok |-> /\ ok
          /\ ~(scheme = "" /\ ~HasPrefix(rest, "/") /\ Contains(SplitN2(rest, "/")[1], ":"))
          /\ ~BadEscape(rest)
          /\ ~BadEscape(frag),
   scheme |-> scheme,
   opaque |-> IF scheme # "" /\ ~HasPrefix(rest, "/") THEN rest ELSE "",
   host |-> IF ~hasAuth THEN ""
            ELSE IF s = 0 THEN From(rest, 3) ELSE SubSeq(rest, 3, s - 1),
   path |-> IF scheme # "" /\ ~HasPrefix(rest, "/") THEN ""
            ELSE IF ~hasAuth THEN rest
            ELSE IF s = 0 THEN "" ELSE From(rest, s),
   query |-> query,
   frag |-> frag]

ParseAuthority(ok, scheme, rest, query, frag) ==
  ParsePath(ok, scheme, rest, query, frag,
            HasPrefix(rest, "//") /\ (scheme # "" \/ ~HasPrefix(rest, "///")),
            IndexFrom(rest, "/", 3))

ParseQuery(ok, scheme, rest, q, frag) ==
  ParseAuthority(ok, scheme, Before(rest, q), After(rest, q, 1), frag)

ParseScheme(ok, sch, frag) ==
  ParseQuery(ok /\ sch.ok, sch.scheme, sch.rest, Index(sch.rest, "?"), frag)

ParseFragment(raw, h) ==
  ParseScheme(~HasCTL(raw), GetScheme(Before(raw, h)), After(raw, h, 1))

\* url.Parse: fragment, scheme, query, authority, path; ok = FALSE is the
\* (nil, err) result
UrlParse(raw) == ParseFragment(raw, Index(raw, "#"))

\* (*url.URL).String
UrlString(u) ==
  (IF u.scheme # "" THEN u.scheme \o ":" ELSE "")
  \o (IF u.opaque # "" THEN u.opaque
      ELSE (IF (u.scheme # "" \/ u.host # "") /\ (u.host # "" \/ u.path # "")
            THEN "//" \o u.host ELSE "")
           \o (IF u.path # "" /\ At(u.path, 1) # "/" /\ u.host # "" THEN "/" ELSE "")
           \o u.path)
  \o (IF u.query # "" THEN "?" \o u.query ELSE "")
  \o (IF u.frag # "" THEN "#" \o u.frag ELSE "")

\* (*url.URL).ResolveReference, the fragment dropped
ResolveReference(b, r) ==
  IF r.scheme # "" THEN [r EXCEPT !.frag = ""]
  ELSE IF r.host # "" THEN [r EXCEPT !.scheme = b.scheme, !.frag = ""]
  ELSE IF r.path = ""
  THEN [b EXCEPT !.query = IF r.query # "" THEN r.query ELSE b.query, !.frag = ""]
  ELSE IF At(r.path, 1) = "/"
  THEN [b EXCEPT !.path = r.path, !.query = r.query, !.frag = ""]
  ELSE [b EXCEPT !.path = (IF LastIndex(b.path, "/") = 0 THEN "/"
                           ELSE SubSeq(b.path, 1, LastIndex(b.path, "/"))) \o r.path,
                 !.query = r.query, !.frag = ""]

Resolved(b, r, ref) ==
  IF HasPrefix(ref, "#") \/ ~r.ok THEN "" ELSE UrlString(ResolveReference(b, r))

\* (*colly.Request).AbsoluteURL: "" for a fragment-only or unparsable
\* reference, otherwise the reference resolved against the request's URL,
\* the fragment dropped
AbsoluteURL(base, ref) == Resolved(UrlParse(base), UrlParse(ref), ref)

\* ---------------------------------------------------------- common/parser
ZeroDate == <<1, 1, 1>>

\* parser.ParseDate: a YYYY-MM-DD date, the zero time for anything else
ParseDate(s) ==
  LET t == TrimSpace(s)
  IN IF /\ Len(t) = 10
        /\ At(t, 5) = "-" /\ At(t, 8) = "-"
        /\ AllDigits(SubSeq(t, 1, 4) \o SubSeq(t, 6, 7) \o SubSeq(t, 9, 10))
     THEN <<Atoi(SubSeq(t, 1, 4)), Atoi(SubSeq(t, 6, 7)), Atoi(SubSeq(t, 9, 10))>>
     ELSE ZeroDate

\* parser.ParseRuntime: an HH:MM:SS duration in whole minutes, 0 otherwise
ParseRuntime(s) ==
  LET t == TrimSpace(s)
  IN IF /\ Len(t) = 8
        /\ At(t, 3) = ":" /\ At(t, 6) = ":"
        /\ AllDigits(SubSeq(t, 1, 2) \o SubSeq(t, 4, 5) \o SubSeq(t, 7, 8))
     THEN 60 * Atoi(SubSeq(t, 1, 2)) + Atoi(SubSeq(t, 4, 5))
     ELSE 0

\* parser.ParseScore: a decimal number, kept in tenths; 0 otherwise
ParseScore(s) ==
  LET parts == SplitN2(TrimSpace(s), ".")
      whole == parts[1]
      frac == IF Len(parts) = 2 THEN parts[2] ELSE "0"
  IN IF whole # "" /\ frac # "" /\ AllDigits(whole \o frac)
     THEN 10 * Atoi(whole) + DigitVal(At(frac, 1))
     ELSE 0

\* parser.ParseInt: the integer a digit string denotes, 0 otherwise
ParseInt(s) ==
  LET t == TrimSpace(s)
  IN IF t # "" /\ AllDigits(t) THEN Atoi(t) ELSE 0

\* ------------------------------------------------------------ common/m3u8
\* m3u8.ParseMediaURI: the first line of the playlist that is not a tag
\* and not empty; an error when there is none
ParseMediaURI(body) ==
  LET uris == {k \in 1..Len(body) : body[k] # "" /\ ~HasPrefix(body[k], "#")}
  IN IF uris = {} THEN [uri |-> "", err |-> "no media uri"]
     ELSE [uri |-> body[CHOOSE k \in uris : \A j \in uris : k <= j],
           err |-> NoError]

\* ------------------------------------------------ Heyzo.ParseIDFromURL
ParseIDFromURL(rawURL) ==
  LET homepage == UrlParse(rawURL)
  IN IF ~homepage.ok THEN [id |-> "", err |-> "parse error"]
     ELSE [id |-> PathBase(PathDir(homepage.path)), err |-> NoError]

\* --------------------------------------------- Heyzo.GetMovieInfoByURL
Name == "HEYZO"

sampleURLPrefix == "https://www.heyzo.com/contents/"

\* fmt.Sprintf(sampleURL, a, b, c)
SprintfSampleURL(a, b, c) == sampleURLPrefix \o a \o "/" \o b \o "/" \o c

\* the record GetMovieInfoByURL builds before it registers the handlers
NewMovieInfo(id, rawURL) ==
  [ID |-> id,
   Number |-> "HEYZO-" \o id,
   Provider |-> Name,
   Homepage |-> rawURL,
   Maker |-> "HEYZO",
   Actors |-> <<>>,
   PreviewImages |-> <<>>,
   Tags |-> <<>>,
   Title |-> "",
   Summary |-> "",
   CoverURL |-> "",
   ThumbURL |-> "",
   ReleaseDate |-> ZeroDate,
   Runtime |-> 0,
   Score |-> 0,
   Series |-> "",
   PreviewVideoURL |-> "",
   PreviewVideoHLSURL |-> ""]

\* OnXML //script[@type="application/ld+json"]; e.valid is whether
\* json.Unmarshal of the node's text returned nil
JSONHandler(i, e) ==
  IF ~e.valid THEN i
  ELSE LET cover == AbsoluteURL(i.Homepage, e.image)
       IN [i EXCEPT !.Title = e.name,
                    !.Summary = e.description,
                    !.CoverURL = cover,
                    !.ThumbURL = cover,
                    !.ReleaseDate = ParseDate(e.startDate),
                    !.Runtime = ParseRuntime(e.duration),
                    !.Score = ParseScore(e.ratingValue),
                    !.Maker = IF e.provider # "" THEN e.provider ELSE @,
                    !.Actors = IF e.actor # "" THEN <<e.actor>> ELSE @]

\* OnXML //*[@id="movie"]/h1: strings.Fields(e.Text)[0] indexes an empty
\* slice when the text holds no field
TitlePanics(i, text) == i.Title = "" /\ Fields(text) = <<>>

TitleHandler(i, text) ==
  IF i.Title = "" THEN [i EXCEPT !.Title = Fields(text)[1]] ELSE i

\* OnXML //p[@class="memo"]
SummaryHandler(i, text) ==
  IF i.Summary = "" THEN [i EXCEPT !.Summary = TrimSpace(text)] ELSE i

\* OnXML //meta[@property="og:image"]
CoverHandler(i, content) ==
  IF i.CoverURL = ""
  THEN LET cover == AbsoluteURL(i.Homepage, content)
       IN [i EXCEPT !.CoverURL = cover, !.ThumbURL = cover]
  ELSE i

\* the row labels of the details table (the source's Japanese labels,
\* romanised: 公開日, 出演, シリーズ, 評価)
LabelReleaseDate == "koukaibi"
LabelActors == "shutsuen"
LabelSeries == "shiriizu"
LabelScore == "hyouka"

\* OnXML //table[@class="movieInfo"]/tbody/tr; e.label is td[1], e.td2 is
\* td[2], e.spans the td[2]/a/span texts, e.rating the ratingValue span
FieldsHandler(i, e) ==
  CASE e.label = LabelReleaseDate -> [i EXCEPT !.ReleaseDate = ParseDate(e.td2)]
    [] e.label = LabelActors -> [i EXCEPT !.Actors = e.spans]
    [] e.label = LabelSeries -> [i EXCEPT !.Series = Trim(e.td2, "-")]
    [] e.label = LabelScore -> [i EXCEPT !.Score = ParseScore(e.rating)]
    [] OTHER -> i

\* OnXML //ul[@class="tag-keyword-list"]; texts are the li/a texts
TagsHandler(i, texts) == [i EXCEPT !.Tags = texts]

\* OnXML //script[@type="text/javascript"]; e.emvideo and e.o say whether
\* the text contains the keyword, whether the pattern found a submatch and
\* what it captured; e.o.valid is whether json.Unmarshal returned nil
ScriptHandler(i, e) ==
  LET i1 == IF e.emvideo.contains /\ e.emvideo.found
            THEN [i EXCEPT !.PreviewVideoURL = AbsoluteURL(i.Homepage, e.emvideo.sub)]
            ELSE i
  IN IF e.o.contains /\ e.o.found /\ e.o.valid
     THEN [i1 EXCEPT !.Runtime = ParseRuntime(e.o.full)]
     ELSE i1

\* SubSeq clipped to the string
Mid(s, m, n) == SubSeq(s, m, IF n > Len(s) THEN Len(s) ELSE n)

\* the end of the run of digits that starts at position j + 1 (j when s[j+1]
\* is no digit)
RECURSIVE DigitRun(_, _)
DigitRun(s, j) ==
  IF j + 1 <= Len(s) /\ IsDigit(At(s, j + 1)) THEN DigitRun(s, j + 1) ELSE j

\* /sample/(\d+)/(\d+)/ts\.(.+?)\.m3u8 tried at position i: e1 and e2 are
\* the ends of the two digit runs, d where the first ".m3u8" that leaves a
\* non-empty fragment starts; <<>> when the pattern does not match at i
SampleMatchFragment(s, i, e1, e2, d) ==
  IF d # 0 /\ ~Contains(SubSeq(s, e2 + 5, d - 1), "\n")
  THEN <<SubSeq(s, i, d + 4), SubSeq(s, i + 8, e1), SubSeq(s, e1 + 2, e2),
         SubSeq(s, e2 + 5, d - 1)>>
  ELSE <<>>

SampleMatchSecond(s, i, e1, e2) ==
  IF e2 > e1 + 1 /\ Mid(s, e2 + 1, e2 + 4) = "/ts."
  THEN SampleMatchFragment(s, i, e1, e2, IndexFrom(s, ".m3u8", e2 + 6))
  ELSE <<>>

SampleMatchFirst(s, i, e1) ==
  IF e1 > i + 7 /\ Mid(s, e1 + 1, e1 + 1) = "/"
  THEN SampleMatchSecond(s, i, e1, DigitRun(s, e1 + 1))
  ELSE <<>>

SampleMatchAt(s, i) == SampleMatchFirst(s, i, DigitRun(s, i + 7))

\* the leftmost match: the pattern is tried at each "/sample/" in turn
RECURSIVE SampleSubmatchFrom(_, _)
SampleSubmatchFrom(uri, i) ==
  IF i = 0 THEN <<>>
  ELSE IF SampleMatchAt(uri, i) # <<>> THEN SampleMatchAt(uri, i)
  ELSE SampleSubmatchFrom(uri, IndexFrom(uri, "/sample/", i + 1))

\* regexp.FindStringSubmatch of the pattern above
SampleSubmatch(uri) == SampleSubmatchFrom(uri, Index(uri, "/sample/"))

\* the deferred function of the response handler
RecordHLSURL(i, r) == [i EXCEPT !.PreviewVideoHLSURL = r.Request.URL]

\* the sample URL written whenever the manifest parses, matching or not
RewriteSampleAlways(i, uri, parseErr, ss) ==
  IF parseErr = NoError
  THEN [i EXCEPT !.PreviewVideoURL =
          IF Len(ss) = 4 THEN SprintfSampleURL(ss[2], ss[3], ss[4]) ELSE uri]
  ELSE i

\* the body of the response handler: the sample URL when the manifest
\* parsed and its media URI matched
RewriteSample(i, uri, parseErr, ss) ==
  IF parseErr = NoError /\ Len(ss) = 4
  THEN [i EXCEPT !.PreviewVideoURL = SprintfSampleURL(ss[2], ss[3], ss[4])]
  ELSE i

\* the HLS URL written beside the sample URL instead of in the defer
ParsedResponseNoDefer(i, r, m) ==
  IF RewriteSample(i, m.uri, m.err, SampleSubmatch(m.uri)) # i
  THEN RecordHLSURL(RewriteSample(i, m.uri, m.err, SampleSubmatch(m.uri)), r)
  ELSE i

ParsedResponse(i, r, m) ==
  RecordHLSURL(RewriteSample(i, m.uri, m.err, SampleSubmatch(m.uri)), r)

\* d.OnResponse: the sample URL when the manifest parses and its media URI
\* matches; the deferred function then records the request URL
OnResponse(i, r) == ParsedResponse(i, r, ParseMediaURI(r.Body))

\* d.Visit with the HLS URL recorded before the request is made
VisitManifestEagerHLS(i, m3u8Link, net) ==
  [info |-> IF m3u8Link # "" /\ net.ok
            THEN OnResponse(i, [Request |-> [URL |-> m3u8Link], Body |-> net.body])
            ELSE [i EXCEPT !.PreviewVideoHLSURL = m3u8Link],
   issued |-> TRUE,
   fetched |-> m3u8Link # "" /\ net.ok,
   r |-> [Request |-> [URL |-> m3u8Link], Body |-> net.body]]

\* d.Visit(m3u8Link): the response handler runs when the fetch succeeds
VisitManifest(i, m3u8Link, net) ==
  [info |-> IF m3u8Link # "" /\ net.ok
            THEN OnResponse(i, [Request |-> [URL |-> m3u8Link], Body |-> net.body])
            ELSE i,
   issued |-> TRUE,
   fetched |-> m3u8Link # "" /\ net.ok,
   r |-> [Request |-> [URL |-> m3u8Link], Body |-> net.body]]

\* the handler returned before d.Visit
NotIssued(i) == [info |-> i, issued |-> FALSE, fetched |-> FALSE, r |-> Nil]

\* OnXML //*[@id="playerContainer"]/script; e.contains is whether the text
\* contains "movieId", e.movieID and e.siteID what the two token patterns
\* captured ("" when they found nothing), e.stream the three captures of the
\* stream template (<<>> when it found nothing); net is what d.Visit meets
PreviewVideoHandler(i, e, net) ==
  IF ~e.contains \/ e.movieID = "" \/ e.siteID = "" \/ Len(e.stream) # 3
  THEN NotIssued(i)
  ELSE VisitManifest(
         i,
         AbsoluteURL(i.Homepage,
           e.stream[1] \o e.siteID \o e.stream[2] \o e.movieID \o e.stream[3]),
         net)

\* OnXML //div[@class="sample-images yoxview"]/script; subs are the
\* captures of "(/contents/.+/\d+?\.\w+?)" in the text
ImagesHandler(i, subs) ==
  [i EXCEPT !.PreviewImages =
     @ \o [k \in 1..Len(subs) |-> AbsoluteURL(i.Homepage, subs[k])]]

\* the handlers of GetMovieInfoByURL in the order they are registered
MovieHandlers ==
  <<"json", "title", "summary", "cover", "fields", "tags", "script", "preview", "images">>

\* the handler after p, "done" after the last one
NextHandler(order, p) ==
  LET k == CHOOSE j \in 1..Len(order) : order[j] = p
  IN IF k = Len(order) THEN "done" ELSE order[k + 1]

\* ------------------------------------------------ documents (the inputs)
RawURLs ==
  {"https://www.heyzo.com/moviepages/1234/index.html",
   "https://www.heyzo.com/moviepages/%zz/index.html"}

JSONLDTexts ==
  {[valid |-> FALSE, name |-> "", image |-> "", description |-> "", startDate |-> "",
    duration |-> "", actor |-> "", provider |-> "", ratingValue |-> ""],
   [valid |-> TRUE, name |-> "", image |-> "", description |-> "", startDate |-> "",
    duration |-> "", actor |-> "", provider |-> "", ratingValue |-> ""],
   [valid |-> TRUE, name |-> "Alpha", image |-> "/img/a.jpg", description |-> "Story",
    startDate |-> "2021-01-02", duration |-> "01:30:00", actor |-> "Aoi",
    provider |-> "Studio", ratingValue |-> "4.5"]}

TitleTexts == {"", " \n ", "Beta  HD"}

SummaryTexts == {" Memo\n"}

MetaContents == {"/img/og.jpg"}

TableRows ==
  {[label |-> LabelReleaseDate, td2 |-> "2020-05-06", spans |-> <<>>, rating |-> ""],
   [label |-> LabelActors, td2 |-> "Rin Mio", spans |-> <<"Rin", "Mio">>, rating |-> ""],
   [label |-> LabelSeries, td2 |-> "-----", spans |-> <<>>, rating |-> ""],
   [label |-> LabelScore, td2 |-> "3.0", spans |-> <<>>, rating |-> "3.0"],
   [label |-> "saizu", td2 |-> "B85", spans |-> <<>>, rating |-> ""]}

TagLists == {<<"A", "B">>}

NoSub == [contains |-> FALSE, found |-> FALSE, sub |-> ""]

NoIsland == [contains |-> FALSE, found |-> FALSE, valid |-> FALSE, full |-> ""]

ScriptTexts ==
  {[emvideo |-> NoSub, o |-> NoIsland],
   [emvideo |-> [contains |-> TRUE, found |-> TRUE, sub |-> "/sample.mp4"],
    o |-> NoIsland],
   [emvideo |-> NoSub,
    o |-> [contains |-> TRUE, found |-> TRUE, valid |-> TRUE, full |-> "00:58:16"]],
   [emvideo |-> [contains |-> TRUE, found |-> FALSE, sub |-> ""],
    o |-> [contains |-> TRUE, found |-> TRUE, valid |-> FALSE, full |-> ""]]}

PlayerScripts ==
  {[contains |-> FALSE, movieID |-> "", siteID |-> "", stream |-> <<>>],
   [contains |-> TRUE, movieID |-> "55", siteID |-> "", stream |-> <<"/x/", "/y/", "/z">>],
   [contains |-> TRUE, movieID |-> "", siteID |-> "9", stream |-> <<"/x/", "/y/", "/z">>],
   [contains |-> TRUE, movieID |-> "55", siteID |-> "9", stream |-> <<>>],
   [contains |-> TRUE, movieID |-> "55", siteID |-> "9", stream |-> <<"/x/", "/y/", "/z">>],
   [contains |-> TRUE, movieID |-> "56", siteID |-> "9", stream |-> <<"/x/", "/y/", "/z">>]}

\* what d.Visit meets: a failed fetch, or a response with a playlist body
NestedFetches ==
  {[ok |-> FALSE, body |-> <<>>],
   [ok |-> TRUE, body |-> <<"<html>">>],
   [ok |-> TRUE, body |-> <<"#EXTM3U", "#EXT-X-ENDLIST">>],
   [ok |-> TRUE, body |-> <<"#EXTM3U", "/sample/7/8/ts.foo.m3u8">>],
   [ok |-> TRUE, body |-> <<"#EXTM3U", "https://cdn.heyzo.com/sample/12/3/ts.a.b.m3u8.m3u8?x=1">>],
   [ok |-> TRUE, body |-> <<"#EXTM3U", "/sample/7/x8/ts.foo.m3u8">>]}

ImageLists == {<<"/contents/3000/1234/gallery/001.jpg">>}

\* ------------------------------------- GetMovieInfoByURL, step by step
\* the call up to c.Visit: url.Parse, the seeded record, the primary fetch
CallGetMovieInfoByURL(rawURL, fetched) ==
  LET parsed == ParseIDFromURL(rawURL)
  IN /\ op = "idle"
     /\ op' = "movie"
     /\ IF parsed.err # NoError
        THEN info' = Nil /\ err' = parsed.err /\ pc' = "done"
        ELSE /\ info' = NewMovieInfo(parsed.id, rawURL)
             /\ IF fetched
                THEN pc' = MovieHandlers[1] /\ err' = NoError
                ELSE pc' = "done" /\ err' = "fetch error"
     /\ UNCHANGED <<nodes, actor, results, visits, dErr, resp, prior, later, arg, ret>>

InMovie(p) == op = "movie" /\ pc = p /\ nodes < MaxNodes

MovieJSON(e) ==
  /\ InMovie("json")
  /\ nodes' = nodes + 1
  /\ info' = JSONHandler(info, e)
  /\ prior' = IF e.valid
              THEN [ReleaseDate |-> info'.ReleaseDate, Score |-> info'.Score,
                    Runtime |-> info'.Runtime]
              ELSE prior
  /\ UNCHANGED <<op, pc, actor, results, err, visits, dErr, resp, later, arg, ret>>

MovieTitle(text) ==
  /\ InMovie("title")
  /\ nodes' = nodes + 1
  /\ IF TitlePanics(info, text)
     THEN pc' = "panic" /\ info' = info
     ELSE pc' = pc /\ info' = TitleHandler(info, text)
  /\ UNCHANGED <<op, actor, results, err, visits, dErr, resp, prior, later, arg, ret>>

MovieSummary(text) ==
  /\ InMovie("summary")
  /\ nodes' = nodes + 1
  /\ info' = SummaryHandler(info, text)
  /\ UNCHANGED <<op, pc, actor, results, err, visits, dErr, resp, prior, later, arg, ret>>

MovieCover(content) ==
  /\ InMovie("cover")
  /\ nodes' = nodes + 1
  /\ info' = CoverHandler(info, content)
  /\ UNCHANGED <<op, pc, actor, results, err, visits, dErr, resp, prior, later, arg, ret>>

MovieFields(e) ==
  /\ InMovie("fields")
  /\ nodes' = nodes + 1
  /\ info' = FieldsHandler(info, e)
  /\ later' = later \cup (IF e.label = LabelReleaseDate THEN {"ReleaseDate"}
                          ELSE IF e.label = LabelScore THEN {"Score"}
                          ELSE {})
  /\ UNCHANGED <<op, pc, actor, results, err, visits, dErr, resp, prior, arg, ret>>

MovieTags(texts) ==
  /\ InMovie("tags")
  /\ nodes' = nodes + 1
  /\ info' = TagsHandler(info, texts)
  /\ UNCHANGED <<op, pc, actor, results, err, visits, dErr, resp, prior, later, arg, ret>>

MovieScript(e) ==
  /\ InMovie("script")
  /\ nodes' = nodes + 1
  /\ info' = ScriptHandler(info, e)
  /\ later' = later \cup (IF e.o.contains /\ e.o.found /\ e.o.valid
                          THEN {"Runtime"} ELSE {})
  /\ UNCHANGED <<op, pc, actor, results, err, visits, dErr, resp, prior, arg, ret>>

\* the handler with the nested, blocking d.Visit inside it
PreviewVideoStep(out) ==
  /\ info' = out.info
  /\ visits' = IF out.issued THEN visits + 1 ELSE visits
  /\ dErr' = IF ~out.issued THEN dErr
             ELSE IF out.fetched THEN NoError ELSE "fetch error"
  /\ resp' = IF out.fetched THEN out.r ELSE resp

MoviePreviewVideo(e, net) ==
  /\ InMovie("preview")
  /\ nodes' = nodes + 1
  /\ PreviewVideoStep(PreviewVideoHandler(info, e, net))
  /\ UNCHANGED <<op, pc, actor, results, err, prior, later, arg, ret>>

MovieImages(subs) ==
  /\ InMovie("images")
  /\ nodes' = nodes + 1
  /\ info' = ImagesHandler(info, subs)
  /\ UNCHANGED <<op, pc, actor, results, err, visits, dErr, resp, prior, later, arg, ret>>

\* no (further) node matches the handler's selector; after the last handler
\* c.Visit returns nil and the call returns (info, nil)
MovieNextHandler ==
  /\ op = "movie"
  /\ pc \in {MovieHandlers[k] : k \in 1..Len(MovieHandlers)}
  /\ pc' = NextHandler(MovieHandlers, pc)
  /\ UNCHANGED <<op, nodes, info, actor, results, err, visits, dErr, resp, prior,
                 later, arg, ret>>

\* ------------------------------------------- XsList.GetActorInfoByURL
\* the package constant name
name == "xslist"

searchURLPrefix == "https://xslist.org/search?query="

searchURLSuffix == "&lg=zh"

\* the labels of the profile block and the two signs of a debut date (the
\* source's Chinese, romanised: 出生, 三围, 罩杯, 出道日期, 血型, 身高, 国籍;
\* 年, 月)
LabelBirthday == "chusheng"
LabelMeasurements == "sanwei"
LabelCupSize == "zhaobei"
LabelDebutDate == "chudaoriqi"
LabelBloodType == "xuexing"
LabelHeight == "shengao"
LabelNationality == "guoji"
SignYear == "nian"
SignMonth == "yue"

\* time.Date(year, month, 1, ...): a month outside 1..12 carries into the year
DateOf(year, month) == <<year + ((month - 1) \div 12), ((month - 1) % 12) + 1, 1>>

SpaceDigitSet == SpaceSet \cup DigitSet

SpacesAndDigits(s) == s # "" /\ \A k \in 1..Len(s) : At(s, k) \in SpaceDigitSet

\* ^([\s\d]+)年([\s\d]+)月$ with y the place of the year sign
DebutSubmatch(s, y) ==
  IF /\ y > 1
     /\ HasSuffix(s, SignMonth)
     /\ SpacesAndDigits(SubSeq(s, 1, y - 1))
     /\ SpacesAndDigits(SubSeq(s, y + Len(SignYear), Len(s) - Len(SignMonth)))
  THEN <<s, SubSeq(s, 1, y - 1), SubSeq(s, y + Len(SignYear), Len(s) - Len(SignMonth))>>
  ELSE <<>>

DebutDateOf(s, ss) ==
  IF Len(ss) = 3 THEN DateOf(ParseInt(ss[2]), ParseInt(ss[3])) ELSE ParseDate(s)

parseDebutDate(s) == DebutDateOf(s, DebutSubmatch(s, Index(s, SignYear)))

\* the record GetActorInfoByURL builds before it registers the handlers
NewActorInfo(homepage, ext) ==
  [ID |-> IF ext # ""
          THEN PathBase(SubSeq(homepage.path, 1, Len(homepage.path) - Len(ext)))
          ELSE "",
   Provider |-> name,
   Homepage |-> UrlString(homepage),
   Aliases |-> <<>>,
   Images |-> <<>>,
   Name |-> "",
   Birthday |-> ZeroDate,
   Measurements |-> "",
   CupSize |-> "",
   DebutDate |-> ZeroDate,
   BloodType |-> "",
   Height |-> 0,
   Nationality |-> ""]

\* OnXML //*[@id="sss1"]/header/h1/span
NameHandler(i, text) == [i EXCEPT !.Name = text]

\* OnXML //*[@id="sss1"]/p/span
AliasesHandler(i, text) == [i EXCEPT !.Aliases = Append(@, text)]

\* OnXML //*[@id="gallery"]/a; e holds the node's attributes
GalleryHandler(i, e) ==
  IF e.class = "profile_img" THEN i
  ELSE IF ParseInt(e.width) = 0 \/ ParseInt(e.height) = 0 THEN i
  ELSE [i EXCEPT !.Images = Append(@, e.href)]

\* the switch on the label of one text node of the profile block
ProfileField(i, label, value) ==
  CASE label = LabelBirthday -> [i EXCEPT !.Birthday = ParseDate(value)]
    [] label = LabelMeasurements -> [i EXCEPT !.Measurements = ReplaceAll(value, " ", "")]
    [] label = LabelCupSize -> [i EXCEPT !.CupSize = TrimSpace(TrimSuffix(value, "Cup"))]
    [] label = LabelDebutDate -> [i EXCEPT !.DebutDate = parseDebutDate(value)]
    [] label = LabelBloodType -> [i EXCEPT !.BloodType = value]
    [] label = LabelHeight -> [i EXCEPT !.Height = ParseInt(TrimRight(value, "cm"))]
    [] label = LabelNationality -> [i EXCEPT !.Nationality = value]
    [] OTHER -> i

\* one text node: split at the first colon, the value trimmed, an empty or
\* "n/a" value skipped
ProfileLine(i, ss) ==
  IF Len(ss) # 2 THEN i
  ELSE IF TrimSpace(ss[2]) = "" \/ TrimSpace(ss[2]) = "n/a" THEN i
  ELSE ProfileField(i, ss[1], TrimSpace(ss[2]))

\* OnXML //*[@id="layout"]/div/p[1]; data are the node's text children
RECURSIVE ProfileHandler(_, _)
ProfileHandler(i, data) ==
  IF data = <<>> THEN i
  ELSE ProfileHandler(ProfileLine(i, SplitN2(TrimSpace(Head(data)), ":")), Tail(data))

\* OnXML //span[@itemprop="height"]
HeightHandler(i, text) == [i EXCEPT !.Height = ParseInt(TrimRight(text, "cm"))]

\* OnXML //span[@itemprop="nationality"]
NationalityHandler(i, text) == [i EXCEPT !.Nationality = ReplaceAll(text, "n/a", "")]

\* the handlers of GetActorInfoByURL in the order they are registered
ActorHandlers == <<"name", "aliases", "gallery", "profile", "height", "nationality">>

\* --------------------------------------------------- XsList.SearchActor
\* the identifier of a listing: the base of the link's path, its extension cut
ListingID(id) == SubSeq(id, 1, Len(id) - Len(PathExt(id)))

\* the local variable name of the handler: the link's title, or what follows
\* its first hyphen
ListingName(ss) == IF Len(ss) = 2 THEN TrimSpace(ss[2]) ELSE ss[1]

\* the ActorSearchResult appended for one //ul/li node; e.href and e.title
\* are the attributes of .//h3/a, e.img the src of .//div[1]/img ("" when the
\* node has none); Provider is set from the handler's local variable name,
\* which hides the package constant
ListingResult(e, homepage, request) ==
  [ID |-> ListingID(PathBase(homepage.path)),
   Name |-> ListingName(SplitN2(e.title, "-")),
   Images |-> IF e.img # "" THEN <<AbsoluteURL(request, e.img)>> ELSE <<>>,
   Provider |-> ListingName(SplitN2(e.title, "-")),
   Homepage |-> UrlString(homepage)]

\* url.QueryEscape of a keyword of letters and spaces
QueryEscape(keyword) == ReplaceAll(keyword, " ", "+")

\* ------------------------------------------------ documents (the inputs)
ActorURLs == {"https://xslist.org/zh/model/123.html", "https://xslist.org/zh/%zz"}

NameTexts == {"Jane Doe"}

AliasTexts == {"JD"}

GalleryLinks ==
  {[class |-> "profile_img", width |-> "100", height |-> "100", href |-> "/p.jpg"],
   [class |-> "", width |-> "", height |-> "600", href |-> "/a.jpg"],
   [class |-> "", width |-> "800", height |-> "600", href |-> "/b.jpg"]}

ProfileBlocks ==
  {<<"chusheng: 1990-01-02", " shengao: 160cm ", "guoji: Japan">>,
   <<"shengao: n/a", "guoji:", "xslist", "sanwei: B85 / W58 / H86", "zhaobei: C Cup">>,
   <<"chudaoriqi: 2010nian 5yue", "xuexing: A", "chudaoriqi: 2011-06-07">>}

HeightTexts == {"158cm", "n/a"}

NationalityTexts == {"China", "n/a"}

Keywords == {"jane doe"}

Listings ==
  {[href |-> "/zh/model/123.html", title |-> "1 - Jane Doe", img |-> "/img/1.jpg"],
   [href |-> "", title |-> "", img |-> "/img/2.jpg"],
   [href |-> "https://xslist.org/zh/model/456.html", title |-> "Jane", img |-> ""],
   [href |-> "/zh/model/%zz.html", title |-> "2 - Ann-Marie", img |-> ""]}

\* ------------------------------------- GetActorInfoByURL, step by step
CallGetActorInfoByURL(u, fetched) ==
  /\ op = "idle"
  /\ op' = "actor"
  /\ IF ~UrlParse(u).ok
     THEN actor' = Nil /\ err' = "parse error" /\ pc' = "done"
     ELSE /\ actor' = NewActorInfo(UrlParse(u), PathExt(UrlParse(u).path))
          /\ IF fetched
             THEN pc' = ActorHandlers[1] /\ err' = NoError
             ELSE pc' = "done" /\ err' = "fetch error"
  /\ UNCHANGED <<nodes, info, results, visits, dErr, resp, prior, later, arg, ret>>

InActor(p) == op = "actor" /\ pc = p /\ nodes < MaxNodes

ActorName(text) ==
  /\ InActor("name")
  /\ nodes' = nodes + 1
  /\ actor' = NameHandler(actor, text)
  /\ UNCHANGED <<op, pc, info, results, err, visits, dErr, resp, prior, later, arg, ret>>

ActorAliases(text) ==
  /\ InActor("aliases")
  /\ nodes' = nodes + 1
  /\ actor' = AliasesHandler(actor, text)
  /\ UNCHANGED <<op, pc, info, results, err, visits, dErr, resp, prior, later, arg, ret>>

ActorGallery(e) ==
  /\ InActor("gallery")
  /\ nodes' = nodes + 1
  /\ actor' = GalleryHandler(actor, e)
  /\ UNCHANGED <<op, pc, info, results, err, visits, dErr, resp, prior, later, arg, ret>>

\* the contested fields the block has a usable line for
ProfileWrites(data) ==
  {f \in {"Height", "Nationality"} :
     \E k \in 1..Len(data) :
       ProfileLine([Height |-> 0, Nationality |-> "", Birthday |-> ZeroDate,
                    Measurements |-> "", CupSize |-> "", DebutDate |-> ZeroDate,
                    BloodType |-> ""],
                   SplitN2(TrimSpace(data[k]), ":"))[f] # (IF f = "Height" THEN 0 ELSE "")}

ActorProfile(data) ==
  /\ InActor("profile")
  /\ nodes' = nodes + 1
  /\ actor' = ProfileHandler(actor, data)
  /\ prior' = [f \in ProfileWrites(data) |-> actor'[f]] @@ prior
  /\ UNCHANGED <<op, pc, info, results, err, visits, dErr, resp, later, arg, ret>>

ActorHeight(text) ==
  /\ InActor("height")
  /\ nodes' = nodes + 1
  /\ actor' = HeightHandler(actor, text)
  /\ later' = later \cup {"Height"}
  /\ UNCHANGED <<op, pc, info, results, err, visits, dErr, resp, prior, arg, ret>>

ActorNationality(text) ==
  /\ InActor("nationality")
  /\ nodes' = nodes + 1
  /\ actor' = NationalityHandler(actor, text)
  /\ later' = later \cup {"Nationality"}
  /\ UNCHANGED <<op, pc, info, results, err, visits, dErr, resp, prior, arg, ret>>

ActorNextHandler ==
  /\ op = "actor"
  /\ pc \in {ActorHandlers[k] : k \in 1..Len(ActorHandlers)}
  /\ pc' = NextHandler(ActorHandlers, pc)
  /\ UNCHANGED <<op, nodes, info, actor, results, err, visits, dErr, resp, prior,
                 later, arg, ret>>

\* ------------------------------------------- SearchActor, step by step
\* the call up to c.Visit; arg keeps the URL of the search request
CallSearchActor(keyword, fetched) ==
  /\ op = "idle"
  /\ op' = "search"
  /\ arg' = searchURLPrefix \o QueryEscape(keyword) \o searchURLSuffix
  /\ IF fetched
     THEN pc' = "li" /\ err' = NoError
     ELSE pc' = "done" /\ err' = "fetch error"
  /\ UNCHANGED <<nodes, info, actor, results, visits, dErr, resp, prior, later, ret>>

\* OnXML //ul/li: url.Parse's error is dropped and homepage.Path read; the
\* read of a nil homepage is a nil pointer dereference
SearchListing(e) ==
  /\ op = "search" /\ pc = "li" /\ nodes < MaxNodes
  /\ nodes' = nodes + 1
  /\ IF ~UrlParse(e.href).ok
     THEN pc' = "panic" /\ results' = results
     ELSE pc' = pc /\ results' = Append(results, ListingResult(e, UrlParse(e.href), arg))
  /\ UNCHANGED <<op, info, actor, err, visits, dErr, resp, prior, later, arg, ret>>

\* no further node matches; c.Visit returns nil
SearchReturn ==
  /\ op = "search" /\ pc = "li"
  /\ pc' = "done"
  /\ UNCHANGED <<op, nodes, info, actor, results, err, visits, dErr, resp, prior,
                 later, arg, ret>>

Next ==
  \/ \E u \in ActorURLs, fetched \in BOOLEAN : CallGetActorInfoByURL(u, fetched)
  \/ \E text \in NameTexts : ActorName(text)
  \/ \E text \in AliasTexts : ActorAliases(text)
  \/ \E e \in GalleryLinks : ActorGallery(e)
  \/ \E data \in ProfileBlocks : ActorProfile(data)
  \/ \E text \in HeightTexts : ActorHeight(text)
  \/ \E text \in NationalityTexts : ActorNationality(text)
  \/ ActorNextHandler
  \/ \E keyword \in Keywords, fetched \in BOOLEAN : CallSearchActor(keyword, fetched)
  \/ \E e \in Listings : SearchListing(e)
  \/ SearchReturn
  \/ \E rawURL \in RawURLs, fetched \in BOOLEAN : CallGetMovieInfoByURL(rawURL, fetched)
  \/ \E e \in JSONLDTexts : MovieJSON(e)
  \/ \E text \in TitleTexts : MovieTitle(text)
  \/ \E text \in SummaryTexts : MovieSummary(text)
  \/ \E content \in MetaContents : MovieCover(content)
  \/ \E e \in TableRows : MovieFields(e)
  \/ \E texts \in TagLists : MovieTags(texts)
  \/ \E e \in ScriptTexts : MovieScript(e)
  \/ \E e \in PlayerScripts, net \in NestedFetches : MoviePreviewVideo(e, net)
  \/ \E subs \in ImageLists : MovieImages(subs)
  \/ MovieNextHandler
  \/ op = "idle" /\ \E id \in RawIDs : CallNormalizeID(id)
  \/ CallNormalizeIDAgain

Spec == Init /\ [][Next]_vars

\* ------------------------------------------------------------ properties
\* the zero value of a contested field
Zero(f) ==
  CASE f = "ReleaseDate" -> ZeroDate
    [] f = "Nationality" -> ""
    [] OTHER -> 0

\* the fields an earlier extractor set to a non-empty value and a later
\* extractor matched for
Contested == {f \in later \cap DOMAIN prior : prior[f] # Zero(f)}

\* C1: in a record returned by GetMovieInfoByURL or GetActorInfoByURL, a field
\* that an earlier-registered extractor set to a non-empty value and a
\* later-registered extractor also matched for holds the earlier extractor's
\* value (ReleaseDate, Score, Runtime; Height, Nationality).
C1_FirstMatchWins ==
  (pc = "done" /\ err = NoError) =>
    /\ op = "movie" => \A f \in Contested : info[f] = prior[f]
    /\ op = "actor" => \A f \in Contested : actor[f] = prior[f]

\* C2: GetMovieInfoByURL and GetActorInfoByURL return either a record with a
\* nil error or an error with a nil record, never a record beside an error.
C2_RecordXorError ==
  /\ (op = "movie" /\ pc = "done") => ((info = Nil) <=> (err # NoError))
  /\ (op = "actor" /\ pc = "done") => ((actor = Nil) <=> (err # NoError))

\* C3: a step in which d.Visit fails leaves PreviewVideoURL and
\* PreviewVideoHLSURL as they were and does not end the walk over the
\* handlers, and once the primary fetch has succeeded the error returned by
\* GetMovieInfoByURL stays nil whatever the nested fetch does.
C3_NestedFailureIsLocal ==
  /\ [][(op = "movie" /\ visits' = visits + 1 /\ dErr' # NoError) =>
          /\ info'.PreviewVideoURL = info.PreviewVideoURL
          /\ info'.PreviewVideoHLSURL = info.PreviewVideoHLSURL
          /\ pc' = pc
          /\ err' = err]_vars
  /\ [](op = "movie" /\ visits > 0 => err = NoError)

C3_Witness ==
  /\ op = "movie" /\ pc = "done" /\ err = NoError
  /\ visits = 1 /\ dErr = "fetch error"
  /\ info.PreviewVideoURL = "https://www.heyzo.com/sample.mp4"
  /\ info.PreviewVideoHLSURL = ""
  /\ info.PreviewImages # <<>>

\* C4: after the primary fetch has succeeded no extractor of
\* GetMovieInfoByURL faults, whatever the document holds.
C4_NoExtractorFaults == op = "movie" => pc # "panic"

\* C5: SearchActor does not fault on a listing node with malformed
\* sub-fields, and it returns one result for every matched //ul/li node.
C5_SearchNeverFaults ==
  op = "search" =>
    /\ pc # "panic"
    /\ (pc = "done" /\ err = NoError) => Len(results) = nodes

\* C6: the Provider of every SearchResult of SearchActor is the package
\* constant name ("xslist").
C6_ProviderIsXslist ==
  op = "search" => \A k \in 1..Len(results) : results[k].Provider = name

\* an identifier of the form (heyzo-)?digits, in either case
IsHeyzoID(id) ==
  \E k \in {0, 6} :
    /\ Len(id) > k
    /\ \A i \in 1..k : At(id, i) \in {At("heyzo-", i), At("HEYZO-", i)}
    /\ \A i \in (k + 1)..Len(id) : At(id, i) \in {"0", "1", "2", "3", "4", "5", "6", "7", "8", "9"}

DigitSuffix(id) ==
  IF Len(id) >= 6 /\ At(id, 6) = "-" THEN From(id, 7) ELSE id

\* C7: NormalizeID is idempotent, and it returns the digit suffix of an input
\* of the form (heyzo-)?digits (case-insensitive) and "" for any other input.
C7_NormalizeIdempotent ==
  /\ op \in {"normalize", "renormalize"} =>
       ret = IF IsHeyzoID(arg) THEN DigitSuffix(arg) ELSE ""
  /\ op = "renormalize" => ret = arg

C7_Witness ==
  /\ op = "renormalize"
  /\ ret = "07"

\* C8: once the nested fetch has produced a response PreviewVideoHLSURL is
\* the URL of that response's request, whether or not the manifest parses or
\* matches, and PreviewVideoHLSURL is non-empty only after such a response.
C8_HLSURLIsManifestRequestURL ==
  (op = "movie" /\ info # Nil) =>
    /\ resp # Nil => info.PreviewVideoHLSURL = resp.Request.URL
    /\ info.PreviewVideoHLSURL # "" => resp # Nil

C8_Witness ==
  /\ op = "movie" /\ pc = "done"
  /\ resp # Nil
  /\ ParseMediaURI(resp.Body).err # NoError
  /\ info.PreviewVideoHLSURL = resp.Request.URL
  /\ info.PreviewVideoHLSURL # ""

\* the ways to read uri as ... /sample/ digits / digits /ts. fragment .m3u8 ...:
\* <<i, d, first, second, fragment>> with i where "/sample/" starts and d
\* where ".m3u8" starts
SampleReadings(uri) ==
  UNION {UNION {UNION {
    {<<i, d, SubSeq(uri, i + 8, e1), SubSeq(uri, e1 + 2, e2), SubSeq(uri, e2 + 5, d - 1)>> :
       d \in {x \in (e2 + 6)..Len(uri) : Mid(uri, x, x + 4) = ".m3u8"}} :
    e2 \in {x \in (e1 + 2)..Len(uri) :
              AllDigits(SubSeq(uri, e1 + 2, x)) /\ Mid(uri, x + 1, x + 4) = "/ts."}} :
    e1 \in {x \in (i + 8)..Len(uri) :
              AllDigits(SubSeq(uri, i + 8, x)) /\ Mid(uri, x + 1, x + 1) = "/"}} :
    i \in {x \in 1..Len(uri) : Mid(uri, x, x + 7) = "/sample/"}}

\* the leftmost reading with the shortest fragment
FirstReading(uri) ==
  CHOOSE r \in SampleReadings(uri) :
    \A q \in SampleReadings(uri) : r[1] < q[1] \/ (r[1] = q[1] /\ r[2] <= q[2])

\* C9: a nested response rewrites PreviewVideoURL to the sample template
\* filled with the three captures exactly when the manifest parses and its
\* media URI reads as /sample/digits/digits/ts.fragment.m3u8; otherwise
\* PreviewVideoURL is what it was before the response.
C9_SampleURLRewrittenIffMatch ==
  [][(op = "movie" /\ visits' = visits + 1 /\ dErr' = NoError) =>
       IF /\ ParseMediaURI(resp'.Body).err = NoError
          /\ SampleReadings(ParseMediaURI(resp'.Body).uri) # {}
       THEN info'.PreviewVideoURL =
              sampleURLPrefix
                \o FirstReading(ParseMediaURI(resp'.Body).uri)[3] \o "/"
                \o FirstReading(ParseMediaURI(resp'.Body).uri)[4] \o "/"
                \o FirstReading(ParseMediaURI(resp'.Body).uri)[5]
       ELSE info'.PreviewVideoURL = info.PreviewVideoURL]_vars

C9_Witness ==
  /\ op = "movie" /\ resp # Nil
  /\ ParseMediaURI(resp.Body).uri = "/sample/7/8/ts.foo.m3u8"
  /\ info.PreviewVideoURL = "https://www.heyzo.com/contents/7/8/foo"

\* C10: one call of GetMovieInfoByURL issues at most one nested fetch.
C10_AtMostOneNestedFetch == op = "movie" => visits <= 1
====
